---- MODULE Spec2Model ----
(***************************************************************************)
(* Model of the Bayesian multi-fidelity Monte-Carlo orchestrator           *)
(* (BMFMCModel) and of its probabilistic-mapping interface                 *)
(* (BmfmcInterface), src/queens/models/bmfmc_model.py.                     *)
(*                                                                         *)
(* numpy arrays are records [nd |-> number of axes, v |-> nested tuples];  *)
(* Python's None is the record with nd = 0.  Column and row indices keep   *)
(* Python's 0-based values; tuples are indexed with index + 1.             *)
(* The control position of a running call is the tuple todo of the         *)
(* statements that are still to be executed; an exception empties it.      *)
(*                                                                         *)
(* Spec follows the calls of the orchestrator with the results of the      *)
(* collaborators as symbolic values.  VarSpec follows the pair loop of     *)
(* calculate_p_yhf_var on numbers, RedSpec follows input_dim_red and       *)
(* GammaSpec calculate_extended_gammas; the locals of the function that is *)
(* followed are the record calc.                                           *)
(***************************************************************************)
EXTENDS Integers, Sequences, FiniteSets, TLC

VARIABLES
    features_config, X_cols, num_features, high_fidelity_model,
    predictive_var_bool, no_features_comparison_bool,
    X_mc, Y_LFs_mc, Y_HF_mc, X_train, Y_LFs_train, training_indices,
    gammas_ext_mc, gammas_ext_train,
    Y_HF_train, Z_train, Z_mc, m_f_mc, var_y_mc, f_mean_train,
    p_yhf_mean, p_yhf_var, p_yhf_mc, p_ylf_mc,
    probabilistic_mapping,
    todo, call, samples, p_yhf_mean_BMFMC, p_yhf_var_BMFMC, output, err, log,
    calc

config == <<features_config, X_cols, num_features, high_fidelity_model,
            predictive_var_bool, no_features_comparison_bool>>
data == <<X_mc, Y_LFs_mc, Y_HF_mc, X_train, Y_LFs_train, training_indices>>
gammas == <<gammas_ext_mc, gammas_ext_train>>
features == <<Z_train, Z_mc>>
predictions == <<m_f_mc, var_y_mc, f_mean_train>>
statistics == <<p_yhf_mean, p_yhf_var>>
reference == <<p_yhf_mc, p_ylf_mc>>
locals == <<p_yhf_mean_BMFMC, p_yhf_var_BMFMC>>
\* the fields and locals that calculate_p_yhf_var does not assign
orchestrator == <<config, data, gammas, Y_HF_train, features, predictions, reference,
                  probabilistic_mapping, todo, call, samples, locals, output, log>>
vars == <<config, data, gammas, Y_HF_train, features, predictions, statistics,
          reference, probabilistic_mapping, todo, call, samples, locals,
          output, err, log, calc>>

-----------------------------------------------------------------------------
(* Bounds of the model *)

\* largest number of Monte-Carlo rows of X_mc
MaxN == 2
\* largest number of training rows selected by the iterator
MaxM == 2

\* the two rows Monte-Carlo inputs are made of (two input columns), and a row
\* that is in no X_mc
RowA == <<0, 1>>
RowB == <<2, 0>>
ForeignRow == <<1, 1>>
\* values of the `samples` argument of evaluate
SampleArgs == {"s1", "s2"}

-----------------------------------------------------------------------------
(* numpy arrays *)

None == [nd |-> 0, v |-> <<>>]
Arr1(s) == [nd |-> 1, v |-> s]
Arr2(m) == [nd |-> 2, v |-> m]
Arr3(t) == [nd |-> 3, v |-> t]
IsNone(a) == a.nd = 0

NRows(m) == Len(m)
NCols(m) == Len(m[1])
\* a.shape of a 2-D array
Shape(a) == <<NRows(a.v), NCols(a.v)>>

Min(S) == CHOOSE x \in S : \A y \in S : x <= y

\* X[:, idx] for a 2-D X: idx an int gives a 1-D array, a list of k ints an
\* (N, k) array, None (numpy.newaxis) an (N, 1, d) array
TakeCols(X, idx) ==
    CASE idx.kind = "int"  -> Arr1([i \in 1..NRows(X) |-> X[i][idx.cs[1] + 1]])
      [] idx.kind = "list" -> Arr2([i \in 1..NRows(X) |->
                                     [j \in 1..Len(idx.cs) |-> X[i][idx.cs[j] + 1]]])
      [] idx.kind = "none" -> Arr3([i \in 1..NRows(X) |-> <<X[i]>>])

\* np.atleast_2d: a 1-D array of length n becomes the (1, n) array
Atleast2d(a) == IF a.nd = 1 THEN Arr2(<<a.v>>) ELSE a

\* a.T: reverses the axes
Transpose(a) ==
    CASE a.nd = 1 -> a
      [] a.nd = 2 -> Arr2([j \in 1..NCols(a.v) |-> [i \in 1..NRows(a.v) |-> a.v[i][j]]])
      [] a.nd = 3 -> Arr3([k \in 1..Len(a.v[1][1]) |->
                            [j \in 1..Len(a.v[1]) |->
                              [i \in 1..Len(a.v) |-> a.v[i][j][k]]]])

\* np.hstack([a, b]) succeeds iff both have the same number of axes and rows
HstackOk(a, b) == a.nd = 2 /\ b.nd = 2 /\ NRows(a.v) = NRows(b.v)
Hstack(a, b) == Arr2([i \in 1..NRows(a.v) |-> a.v[i] \o b.v[i]])

\* a[rows, :] for a list of 0-based row indices
TakeRows(a, rows) == Arr2([k \in 1..Len(rows) |-> a.v[rows[k] + 1]])

\* a[:, 0:n]: a slice never fails, it stops at the last column
SliceCols(a, n) ==
    LET m == IF n < NCols(a.v) THEN n ELSE NCols(a.v)
    IN  Arr2([i \in 1..NRows(a.v) |-> SubSeq(a.v[i], 1, m)])

-----------------------------------------------------------------------------
(* Collaborators: the high-fidelity model, the probabilistic mapping and   *)
(* the kernel density estimator are used as black boxes; their results are *)
(* records that name what they were computed from.                         *)

\* number of points of the support grid y_pdf_support
y_pdf_support_len == 200

\* high_fidelity_model.evaluate(X_train); response["result"]: one row per X_train row
HFModelResult(Xtr) == Arr2([i \in 1..NRows(Xtr) |-> <<30 + Xtr[i][1] + 3 * Xtr[i][2]>>])

\* setup without train
SetupOnly(Z, Y) == [X |-> Z, Y |-> Y, trained |-> FALSE]

\* the mapping before setup, and after setup(X, Y); train()
UntrainedMapping == [X |-> None, Y |-> None, trained |-> FALSE]
SetupAndTrain(Z, Y) == [X |-> Z, Y |-> Y, trained |-> TRUE]

\* probabilistic_mapping.predict(samples, support, full_cov): "result" and "variance"
Predict(pm, s, full_cov) ==
    [result   |-> [nd |-> 2, v |-> [what |-> "mean", samples |-> s, fit |-> pm]],
     variance |-> [nd |-> 2, v |-> [what |-> IF full_cov THEN "covariance" ELSE "variance",
                                    samples |-> s, fit |-> pm]]]

\* the gradient flag is ignored
InterfaceEvaluateIgnoresGradient(pm, gradient_bool) ==
    IF pm = None THEN "RuntimeError" ELSE "predict"

\* BmfmcInterface.evaluate up to the call of predict: the two checks, in order
InterfaceEvaluateOutcome(pm, gradient_bool) ==
    IF pm = None THEN "RuntimeError"
    ELSE IF gradient_bool THEN "NotImplementedError"
    ELSE "predict"

\* est.estimate_pdf(data, bandwidth, support_points=y_pdf_support)
EstimatePdf(d) == [nd |-> 1, v |-> [what |-> "kde", of |-> d, len |-> y_pdf_support_len]]

-----------------------------------------------------------------------------
(* get_hf_training_data *)

\* a HF model wins over the Monte-Carlo reference when both are configured
HfPathPrefersModel(hf, yhfmc) ==
    IF hf THEN "simulate"
    ELSE IF ~IsNone(yhfmc) THEN "lookup"
    ELSE "error"

\* which branch of get_hf_training_data is taken (hf: a HF model is configured)
HfPath(hf, yhfmc) ==
    IF hf /\ IsNone(yhfmc) THEN "simulate"
    ELSE IF ~IsNone(yhfmc) /\ ~hf THEN "lookup"
    ELSE "error"

\* np.where(np.all(X_mc == row, axis=1))[0], as 1-based positions
MatchingRows(Xmc, row) == {j \in 1..NRows(Xmc) : Xmc[j] = row}

\* the last matching index instead of the first
IndexRowLast(Xmc, row) ==
    IF MatchingRows(Xmc, row) = {} THEN -1
    ELSE (CHOOSE j \in MatchingRows(Xmc, row) : \A l \in MatchingRows(Xmc, row) : l <= j) - 1

\* ...[0][0]: the first matching index (0-based); -1 stands for the IndexError
\* that [0] raises on an empty match
IndexRow(Xmc, row) ==
    IF MatchingRows(Xmc, row) = {} THEN -1 ELSE Min(MatchingRows(Xmc, row)) - 1

IndexRows(Xmc, Xtr) == [i \in 1..NRows(Xtr) |-> IndexRow(Xmc, Xtr[i])]

\* every Monte-Carlo HF output is taken, not only those of the training rows
LookupAll(yhfmc, index_rows) == Transpose(Atleast2d(yhfmc))

\* np.atleast_2d(np.asarray([Y_HF_mc[index] for index in index_rows])).T
LookupYHF(yhfmc, index_rows) ==
    Transpose(Atleast2d(Arr1([i \in 1..Len(index_rows) |-> yhfmc.v[index_rows[i] + 1]])))

-----------------------------------------------------------------------------
(* set_feature_strategy and update_probabilistic_mapping_with_features *)

\* coord_features handled like man_features
FeatureBranchWithCoord(fc) ==
    CASE fc \in {"man_features", "coord_features"} -> "man"
      [] fc = "opt_features" -> "opt"
      [] fc = "no_features"  -> "no"
      [] OTHER               -> "unknown"

\* an unknown name silently falls back to no_features
FeatureBranchFallback(fc) ==
    CASE fc = "man_features" -> "man"
      [] fc = "opt_features" -> "opt"
      [] OTHER               -> "no"

\* the branch of the if/elif chain that features_config selects
FeatureBranch(fc) ==
    CASE fc = "man_features" -> "man"
      [] fc = "opt_features" -> "opt"
      [] fc = "no_features"  -> "no"
      [] OTHER               -> "unknown"

\* np.atleast_2d(X[:, idx_vec]).T
ExtGammas(X, idx_vec) == Transpose(Atleast2d(TakeCols(X, idx_vec)))

\* the two assignments of the no_features branch exchanged
NoFeaturesSwapped(Ylt, Ylm) == <<Ylm, Ylt>>

\* the no_features branch: (Z_train, Z_mc)
NoFeatures(Ylt, Ylm) == <<Ylt, Ylm>>

\* num_features < 1 for an int; None < 1 is a TypeError in Python 3
NumFeaturesCheck(nf) ==
    IF nf.kind = "none" THEN "TypeError"
    ELSE IF nf.n < 1 THEN "ValueError"
    ELSE "ok"

-----------------------------------------------------------------------------
(* Bodies of the composite methods: the statements they execute, in order *)

EvaluateBody(cmp) ==
    <<"compute_pymc_reference">>
    \o (IF cmp THEN <<"run_BMFMC_without_features">> ELSE <<>>)
    \o <<"run_BMFMC", "return_output">>

RunBMFMCBody ==
    <<"build_approximation_features", "evaluate_Z_mc", "evaluate_Z_train",
      "compute_pyhf_statistics">>

RunBMFMCWithoutFeaturesBody ==
    <<"build_approximation_plain", "evaluate_Y_LFs_mc", "evaluate_Y_LFs_train",
      "compute_pyhf_statistics", "return_without_features">>

\* the mapping is trained before the HF training data are obtained
BuildApproximationTrainsFirst(approx_case) ==
    (IF approx_case THEN <<"set_feature_strategy", "interface_build_Z_train">>
     ELSE <<"interface_build_Y_LFs_train">>)
    \o <<"get_hf_training_data">>

BuildApproximationBody(approx_case) ==
    <<"get_hf_training_data">>
    \o (IF approx_case THEN <<"set_feature_strategy", "interface_build_Z_train">>
        ELSE <<"interface_build_Y_LFs_train">>)

UpdateProbabilisticMappingBody ==
    <<"interface_build_Z_train", "evaluate_Z_mc", "evaluate_Z_train">>

\* the comparison entries are read from the attributes instead of the locals
OutputDictFromAttributes ==
    [Z_mc |-> Z_mc, m_f_mc |-> m_f_mc, var_y_mc |-> var_y_mc,
     y_pdf_support |-> [nd |-> 1, v |-> [what |-> "linspace", len |-> y_pdf_support_len]],
     p_yhf_mean |-> p_yhf_mean, p_yhf_var |-> p_yhf_var,
     p_yhf_mean_BMFMC |-> p_yhf_mean, p_yhf_var_BMFMC |-> p_yhf_var,
     p_ylf_mc |-> p_ylf_mc, p_yhf_mc |-> p_yhf_mc,
     Z_train |-> Z_train, X_train |-> X_train, Y_HF_train |-> Y_HF_train]

\* the dictionary evaluate returns
OutputDict ==
    [Z_mc |-> Z_mc, m_f_mc |-> m_f_mc, var_y_mc |-> var_y_mc,
     y_pdf_support |-> [nd |-> 1, v |-> [what |-> "linspace", len |-> y_pdf_support_len]],
     p_yhf_mean |-> p_yhf_mean, p_yhf_var |-> p_yhf_var,
     p_yhf_mean_BMFMC |-> p_yhf_mean_BMFMC, p_yhf_var_BMFMC |-> p_yhf_var_BMFMC,
     p_ylf_mc |-> p_ylf_mc, p_yhf_mc |-> p_yhf_mc,
     Z_train |-> Z_train, X_train |-> X_train, Y_HF_train |-> Y_HF_train]

-----------------------------------------------------------------------------
(* Initial states: the model object after __init__ and load_sampling_data, *)
(* with the fields the iterator assigns before it calls the model          *)
(* (X_train, Y_LFs_train, training_indices, gammas_ext_mc) either still    *)
(* None or set.  __init__ passes its probabilistic_mapping argument to the *)
(* interface unchecked: it is a mapping object or None (None is explored   *)
(* with the no_features strategy).                                         *)

SeqsUpTo(S, n) == UNION {[1..k -> S] : k \in 1..n}

\* X_mc with n rows: the rows alternate between RowA and RowB; with dup the
\* second row repeats the first
MonteCarloInput(n, dup) ==
    [i \in 1..n |-> IF i % 2 = 1 \/ (dup /\ i = 2) THEN RowA ELSE RowB]

MonteCarloInputs == {MonteCarloInput(n, dup) : n \in 1..MaxN, dup \in BOOLEAN}

Increasing(s) == \A i, j \in 1..Len(s) : i < j => s[i] < s[j]

Reverse(s) == [i \in 1..Len(s) |-> s[Len(s) + 1 - i]]

\* the 0-based row selections an iterator can make among n Monte-Carlo rows:
\* distinct rows, in increasing or in decreasing order
IndexLists(n) ==
    LET inc == {s \in SeqsUpTo(0..(n - 1), MaxM) : Increasing(s)}
    IN  inc \cup {Reverse(s) : s \in inc}

FeatureConfigs ==
    {"no_features", "man_features", "opt_features", "coord_features", "pca_features"}

NoCols == [kind |-> "none", cs |-> <<>>]
XColsValues ==
    {NoCols, [kind |-> "int", cs |-> <<1>>],
     [kind |-> "list", cs |-> <<0>>], [kind |-> "list", cs |-> <<0, 1>>]}

NoNumber == [kind |-> "none", n |-> 0]
NumFeaturesValues == {NoNumber} \cup {[kind |-> "int", n |-> k] : k \in {0, 1, 3}}

\* Y_LFs_mc of one LF model and Y_HF_mc for n Monte-Carlo rows
LFOutput(n) == Arr2([i \in 1..n |-> <<10 + i>>])
HFOutput(n) == Arr1([i \in 1..n |-> 20 + i])
\* gammas_ext_mc as calculate_extended_gammas leaves it: one column per candidate
ExtendedGammas(n) == Arr2([i \in 1..n |-> <<100 + i, 200 + i>>])

\* X_train for the selection ti; with foreign its first row is in no X_mc
TrainingInput(Xmc, ti, foreign) ==
    Arr2([k \in 1..Len(ti) |-> IF foreign /\ k = 1 THEN ForeignRow ELSE Xmc[ti[k] + 1]])

NoErr == [type |-> "none", at |-> "none"]
\* calculate_p_yhf_var is not being followed
NoFrame == [pc |-> "none"]

Init ==
    /\ features_config \in FeatureConfigs
    /\ X_cols \in (IF features_config = "man_features" THEN XColsValues ELSE {NoCols})
    /\ num_features \in
         (IF features_config = "opt_features" THEN NumFeaturesValues ELSE {NoNumber})
    /\ high_fidelity_model \in BOOLEAN
    /\ predictive_var_bool \in BOOLEAN
    /\ no_features_comparison_bool \in BOOLEAN
    /\ \E m \in MonteCarloInputs :
         /\ X_mc = Arr2(m)
         /\ Y_LFs_mc = LFOutput(Len(m))
         /\ Y_HF_mc \in {None, HFOutput(Len(m))}
         /\ \/ /\ X_train = None
               /\ Y_LFs_train = None
               /\ training_indices = None
               /\ gammas_ext_mc = None
            \/ \E ti \in IndexLists(Len(m)), foreign \in BOOLEAN :
                 /\ X_train = TrainingInput(m, ti, foreign)
                 /\ Y_LFs_train = TakeRows(LFOutput(Len(m)), ti)
                 /\ training_indices \in
                      {Arr1(ti)} \cup (IF features_config = "opt_features" THEN {None} ELSE {})
                 /\ gammas_ext_mc =
                      (IF features_config = "opt_features" THEN ExtendedGammas(Len(m)) ELSE None)
    /\ gammas_ext_train = None
    /\ Y_HF_train = None
    /\ Z_train = None
    /\ Z_mc = None
    /\ m_f_mc = None
    /\ var_y_mc = None
    /\ f_mean_train = None
    /\ p_yhf_mean = None
    /\ p_yhf_var = None
    /\ p_yhf_mc = None
    /\ p_ylf_mc = None
    /\ probabilistic_mapping \in
         {UntrainedMapping} \cup (IF features_config = "no_features" THEN {None} ELSE {})
    /\ todo = <<>>
    /\ call = "none"
    /\ samples = "none"
    /\ p_yhf_mean_BMFMC = None
    /\ p_yhf_var_BMFMC = None
    /\ output = None
    /\ err = NoErr
    /\ log = <<>>
    /\ calc = NoFrame

-----------------------------------------------------------------------------
(* Control *)

Idle == todo = <<>>
At(stmt) == todo # <<>> /\ Head(todo) = stmt

\* an exception, raised after the events, leaves every method on the call
\* stack: nothing catches it
RaiseAfter(events, type) ==
    /\ todo' = <<>>
    /\ err' = [type |-> type, at |-> Head(todo)]
    /\ log' = log \o events \o <<"raise">>

Raise(type) == RaiseAfter(<<>>, type)

\* the current statement completes, having started the statements stmts
Continue(stmts, events) ==
    /\ todo' = stmts \o Tail(todo)
    /\ err' = err
    /\ log' = log \o events

\* methods of the model that are called from outside
EntryPoints ==
    {"build_approximation_features", "get_hf_training_data", "set_feature_strategy",
     "grad", "interface_evaluate", "interface_evaluate_gradient"}

-----------------------------------------------------------------------------
(* Calls from outside *)

\* evaluate(samples): the two locals are cleared and the body starts
Evaluate ==
    /\ Idle
    /\ \E s \in SampleArgs : samples' = s
    /\ call' = "evaluate"
    /\ p_yhf_mean_BMFMC' = None
    /\ p_yhf_var_BMFMC' = None
    /\ todo' = EvaluateBody(no_features_comparison_bool)
    /\ err' = NoErr
    /\ log' = <<>>
    /\ output' = None
    /\ UNCHANGED <<calc, config, data, gammas, Y_HF_train, features, predictions, statistics,
                   reference, probabilistic_mapping>>

\* a direct call of one of the other methods
CallMethod ==
    /\ Idle
    /\ \E m \in EntryPoints : call' = m /\ todo' = <<m>>
    /\ err' = NoErr
    /\ log' = <<>>
    /\ output' = None
    /\ UNCHANGED <<calc, config, data, gammas, Y_HF_train, features, predictions, statistics,
                   reference, probabilistic_mapping, samples, locals>>

-----------------------------------------------------------------------------
(* Statements *)

ComputePymcReference ==
    /\ At("compute_pymc_reference")
    /\ p_yhf_mc' = IF IsNone(Y_HF_mc) THEN p_yhf_mc ELSE EstimatePdf(Y_HF_mc)
    /\ IF IsNone(Y_LFs_train)
       THEN Raise("AttributeError") /\ UNCHANGED p_ylf_mc
       ELSE /\ p_ylf_mc' = IF NCols(Y_LFs_train.v) < 2 THEN EstimatePdf(Y_LFs_mc) ELSE p_ylf_mc
            /\ Continue(<<>>, <<>>)
    /\ UNCHANGED <<calc, config, data, gammas, Y_HF_train, features, predictions, statistics,
                   probabilistic_mapping, call, samples, locals, output>>

RunBMFMCWithoutFeatures ==
    /\ At("run_BMFMC_without_features")
    /\ Continue(RunBMFMCWithoutFeaturesBody, <<"pass">>)
    /\ UNCHANGED <<calc, config, data, gammas, Y_HF_train, features, predictions, statistics,
                   reference, probabilistic_mapping, call, samples, locals, output>>

RunBMFMC ==
    /\ At("run_BMFMC")
    /\ Continue(RunBMFMCBody, <<"pass">>)
    /\ UNCHANGED <<calc, config, data, gammas, Y_HF_train, features, predictions, statistics,
                   reference, probabilistic_mapping, call, samples, locals, output>>

BuildApproximation ==
    /\ \E approx_case \in BOOLEAN :
         /\ At(IF approx_case THEN "build_approximation_features"
               ELSE "build_approximation_plain")
         /\ Continue(BuildApproximationBody(approx_case), <<>>)
    /\ UNCHANGED <<calc, config, data, gammas, Y_HF_train, features, predictions, statistics,
                   reference, probabilistic_mapping, call, samples, locals, output>>

GetHfTrainingData ==
    /\ At("get_hf_training_data")
    /\ IF IsNone(X_train)
       THEN Raise("ValueError") /\ UNCHANGED Y_HF_train
       ELSE LET path == HfPath(high_fidelity_model, Y_HF_mc)
                index_rows == IndexRows(X_mc.v, X_train.v)
            IN  CASE path = "simulate" ->
                       /\ Y_HF_train' = HFModelResult(X_train.v)
                       /\ Continue(<<>>, <<"hf_evaluate", "hf_data">>)
                  [] path = "lookup" ->
                       IF \E i \in 1..Len(index_rows) : index_rows[i] < 0
                       THEN RaiseAfter(<<"hf_lookup">>, "IndexError") /\ UNCHANGED Y_HF_train
                       ELSE /\ Y_HF_train' = LookupYHF(Y_HF_mc, index_rows)
                            /\ Continue(<<>>, <<"hf_lookup", "hf_data">>)
                  [] path = "error" ->
                       Raise("RuntimeError") /\ UNCHANGED Y_HF_train
    /\ UNCHANGED <<calc, config, data, gammas, features, predictions, statistics,
                   reference, probabilistic_mapping, call, samples, locals, output>>

SetFeatureStrategy ==
    /\ At("set_feature_strategy")
    /\ LET branch == FeatureBranch(features_config)
       IN  CASE branch = "man" ->
                  IF IsNone(X_train)
                  THEN Raise("TypeError") /\ UNCHANGED <<gammas, features>>
                  ELSE LET gt == ExtGammas(X_train.v, X_cols)
                           gm == ExtGammas(X_mc.v, X_cols)
                       IN  /\ gammas_ext_train' = gt
                           /\ gammas_ext_mc' = gm
                           /\ IF ~HstackOk(Y_LFs_train, gt)
                              THEN Raise("ValueError") /\ UNCHANGED features
                              ELSE /\ Z_train' = Hstack(Y_LFs_train, gt)
                                   /\ IF ~HstackOk(Y_LFs_mc, gm)
                                      THEN Raise("ValueError") /\ UNCHANGED Z_mc
                                      ELSE /\ Z_mc' = Hstack(Y_LFs_mc, gm)
                                           /\ Continue(<<>>, <<>>)
             [] branch = "opt" ->
                  /\ UNCHANGED <<gammas, features>>
                  /\ IF NumFeaturesCheck(num_features) # "ok"
                     THEN Raise(NumFeaturesCheck(num_features))
                     ELSE Continue(<<"update_probabilistic_mapping_with_features">>, <<>>)
             [] branch = "no" ->
                  /\ Z_train' = NoFeatures(Y_LFs_train, Y_LFs_mc)[1]
                  /\ Z_mc' = NoFeatures(Y_LFs_train, Y_LFs_mc)[2]
                  /\ UNCHANGED gammas
                  /\ Continue(<<>>, <<>>)
             [] branch = "unknown" ->
                  Raise("IOError") /\ UNCHANGED <<gammas, features>>
    /\ UNCHANGED <<calc, config, data, Y_HF_train, predictions, statistics,
                   reference, probabilistic_mapping, call, samples, locals, output>>

UpdateProbabilisticMappingWithFeatures ==
    /\ At("update_probabilistic_mapping_with_features")
    /\ IF IsNone(gammas_ext_mc)
       THEN Raise("TypeError") /\ UNCHANGED features
       ELSE LET gamma_mc == SliceCols(gammas_ext_mc, num_features.n)
                Z == Hstack(Y_LFs_mc, gamma_mc)
            IN  /\ Z_mc' = Z
                /\ IF IsNone(training_indices)
                   THEN Raise("ValueError") /\ UNCHANGED Z_train
                   ELSE /\ Z_train' = TakeRows(Z, training_indices.v)
                        /\ Continue(UpdateProbabilisticMappingBody, <<>>)
    /\ UNCHANGED <<calc, config, data, gammas, Y_HF_train, predictions, statistics,
                   reference, probabilistic_mapping, call, samples, locals, output>>

\* the array a statement "interface_build_<name>" passes as Z_LF_train
BuildArgument(stmt) ==
    CASE stmt = "interface_build_Z_train"     -> Z_train
      [] stmt = "interface_build_Y_LFs_train" -> Y_LFs_train

\* BmfmcInterface.build_approximation(Z_LF_train, Y_HF_train): setup and train
\* are called on the mapping, whatever it is
InterfaceBuildApproximation ==
    /\ \E stmt \in {"interface_build_Z_train", "interface_build_Y_LFs_train"} :
         /\ At(stmt)
         /\ IF probabilistic_mapping = None
            THEN Raise("AttributeError") /\ UNCHANGED probabilistic_mapping
            ELSE /\ probabilistic_mapping' =
                      SetupAndTrain(BuildArgument(stmt), Y_HF_train)
                 /\ Continue(<<>>, <<"setup", "train">>)
    /\ UNCHANGED <<calc, config, data, gammas, Y_HF_train, features, predictions, statistics,
                   reference, call, samples, locals, output>>

\* the array a statement "evaluate_<name>" passes, transposed, to BmfmcInterface.evaluate
EvaluateArgument(stmt) ==
    CASE stmt = "evaluate_Z_mc"        -> Z_mc
      [] stmt = "evaluate_Z_train"     -> Z_train
      [] stmt = "evaluate_Y_LFs_mc"    -> Y_LFs_mc
      [] stmt = "evaluate_Y_LFs_train" -> Y_LFs_train

\* self.m_f_mc, self.var_y_mc = self.interface.evaluate(<mc array>.T) and
\* self.f_mean_train, _ = self.interface.evaluate(<train array>.T)
InterfaceEvaluate ==
    /\ \E stmt \in {"evaluate_Z_mc", "evaluate_Z_train",
                    "evaluate_Y_LFs_mc", "evaluate_Y_LFs_train"} :
         /\ At(stmt)
         /\ LET a == EvaluateArgument(stmt)
                mc == stmt \in {"evaluate_Z_mc", "evaluate_Y_LFs_mc"}
                outcome == InterfaceEvaluateOutcome(probabilistic_mapping, FALSE)
            IN  IF IsNone(a)
                THEN Raise("AttributeError") /\ UNCHANGED predictions
                ELSE IF outcome # "predict"
                THEN Raise(outcome) /\ UNCHANGED predictions
                ELSE LET p == Predict(probabilistic_mapping, Transpose(a), FALSE)
                     IN  /\ m_f_mc' = IF mc THEN p.result ELSE m_f_mc
                         /\ var_y_mc' = IF mc THEN p.variance ELSE var_y_mc
                         /\ f_mean_train' = IF mc THEN f_mean_train ELSE p.result
                         /\ Continue(<<>>, <<"predict">>)
    /\ UNCHANGED <<calc, config, data, gammas, Y_HF_train, features, statistics,
                   reference, probabilistic_mapping, call, samples, locals, output>>

\* interface.evaluate(Y_LFs_mc.T) and interface.evaluate(Y_LFs_mc.T,
\* gradient_bool=True) called from outside: the pair it returns is not stored
\* in the model
InterfaceEvaluateCall ==
    /\ \E gradient_bool \in BOOLEAN :
         /\ At(IF gradient_bool THEN "interface_evaluate_gradient" ELSE "interface_evaluate")
         /\ LET outcome == InterfaceEvaluateOutcome(probabilistic_mapping, gradient_bool)
            IN  IF outcome # "predict" THEN Raise(outcome)
                ELSE Continue(<<>>, <<"predict">>)
    /\ UNCHANGED <<calc, config, data, gammas, Y_HF_train, features, predictions, statistics,
                   reference, probabilistic_mapping, call, samples, locals, output>>

\* BMFMCModel.grad(samples, upstream_gradient)
Grad ==
    /\ At("grad")
    /\ Raise("NotImplementedError")
    /\ UNCHANGED <<calc, config, data, gammas, Y_HF_train, features, predictions, statistics,
                   reference, probabilistic_mapping, call, samples, locals, output>>

\* number of Monte-Carlo points of a prediction: one per column of the samples passed
NPoints(pred) == NCols(pred.v.samples.v)

\* calculate_p_yhf_mean
PYhfMean(m, var) ==
    [nd |-> 1, v |-> [what |-> "p_yhf_mean", len |-> y_pdf_support_len,
                      m_f_mc |-> m, var_y_mc |-> var]]

\* the value calculate_p_yhf_var stores after the last of `pairs` pairs
PYhfVar(m, var, k_post, mean, pairs) ==
    [nd |-> 1, v |-> [what |-> "p_yhf_var", len |-> y_pdf_support_len, pairs |-> pairs,
                      m_f_mc |-> m, var_y_mc |-> var, k_post |-> k_post,
                      p_yhf_mean |-> mean]]

ComputePyhfStatistics ==
    /\ At("compute_pyhf_statistics")
    /\ p_yhf_mean' = PYhfMean(m_f_mc, var_y_mc)
    /\ IF ~predictive_var_bool
       THEN p_yhf_var' = None /\ Continue(<<>>, <<"stats">>)
       ELSE IF IsNone(Z_mc)
            THEN Raise("AttributeError") /\ UNCHANGED p_yhf_var
            ELSE IF InterfaceEvaluateOutcome(probabilistic_mapping, FALSE) # "predict"
            THEN Raise(InterfaceEvaluateOutcome(probabilistic_mapping, FALSE))
                 /\ UNCHANGED p_yhf_var
            ELSE LET k_post == Predict(probabilistic_mapping, Transpose(Z_mc), FALSE).variance
                     n == NPoints(m_f_mc)
                     pairs == (n * (n - 1)) \div 2
                 IN  /\ p_yhf_var' = IF pairs = 0 THEN p_yhf_var
                                      ELSE PYhfVar(m_f_mc, var_y_mc, k_post, p_yhf_mean', pairs)
                     /\ Continue(<<>>, <<"predict", "stats">>)
    /\ UNCHANGED <<calc, config, data, gammas, Y_HF_train, features, predictions,
                   reference, probabilistic_mapping, call, samples, locals, output>>

\* the end of run_BMFMC_without_features: the pair it returns, assigned by evaluate
ReturnWithoutFeatures ==
    /\ At("return_without_features")
    /\ p_yhf_mean_BMFMC' = (IF call = "evaluate" THEN p_yhf_mean ELSE p_yhf_mean_BMFMC)
    /\ p_yhf_var_BMFMC' = (IF call = "evaluate" THEN p_yhf_var ELSE p_yhf_var_BMFMC)
    /\ Continue(<<>>, <<>>)
    /\ UNCHANGED <<calc, config, data, gammas, Y_HF_train, features, predictions, statistics,
                   reference, probabilistic_mapping, call, samples, output>>

\* the end of evaluate: gather and return the output
ReturnOutput ==
    /\ At("return_output")
    /\ output' = OutputDict
    /\ Continue(<<>>, <<>>)
    /\ UNCHANGED <<calc, config, data, gammas, Y_HF_train, features, predictions, statistics,
                   reference, probabilistic_mapping, call, samples, locals>>

Next ==
    \/ Evaluate
    \/ CallMethod
    \/ ComputePymcReference
    \/ RunBMFMCWithoutFeatures
    \/ RunBMFMC
    \/ BuildApproximation
    \/ GetHfTrainingData
    \/ SetFeatureStrategy
    \/ UpdateProbabilisticMappingWithFeatures
    \/ InterfaceBuildApproximation
    \/ InterfaceEvaluate
    \/ InterfaceEvaluateCall
    \/ Grad
    \/ ComputePyhfStatistics
    \/ ReturnWithoutFeatures
    \/ ReturnOutput

Spec == Init /\ [][Next]_vars

-----------------------------------------------------------------------------
(* calculate_p_yhf_var on numbers.  The variances and the entries of k_post *)
(* are small integers; det_sigma is counted in units of 1e-6 and the       *)
(* covariance that enters inv_sigma in units of 1/100, so that the values  *)
(* 1e-6 and 0.95 * covariance of the safeguard are integers.               *)

\* largest number of Monte-Carlo points of the pair loop
MaxPoints == 3
\* values of var_y_mc and of the entries of k_post
VarValues == {1, 2}
CovValues == {0, 2}

\* units of det_sigma and of covariance
DetUnitsPerOne == 1000000
CovUnitsPerOne == 100
\* det_sigma = 1e-6 and covariance = 0.95 * covariance, in these units
ClampedDetSigma == 1
ShrunkCovarianceUnits == 95

\* the factor 0.9995 of p_yhf_mean**2, in units of 1/10000
DiscountUnits == 9995

\* the sum is divided by the counter itself
DivisorIsCounter(i) == i

\* 1 / (i - 1) * yhf_pdf_grid, i being the counter after i = i + 1
Divisor(i) == i - 1

\* an (n, 1) array
Column(s) == Arr2([n \in 1..Len(s) |-> <<s[n]>>])

\* what predict returns under "variance" for N points: N x N (symmetric) when
\* the mapping returns covariances, N x 1 when it returns variances
KPosts(N) ==
    {Arr2(m) : m \in {k \in [1..N -> [1..N -> CovValues]] :
                        \A a, b \in 1..N : k[a][b] = k[b][a]}}
    \cup {Column(s) : s \in [1..N -> CovValues]}

\* the pairs (num1, num2) of the two enumerate loops, in the order of the
\* loops: num2 counts the elements of f_mean_pred[num1 + 1:] from 0
RECURSIVE LoopPairs(_, _)
LoopPairs(N, num1) ==
    IF num1 >= N THEN <<>>
    ELSE [e \in 1..(N - num1 - 1) |-> <<num1, e - 1>>] \o LoopPairs(N, num1 + 1)

\* the determinant is used as computed
SafeguardOff(det, covariance) ==
    [det_sigma |-> det * DetUnitsPerOne, covariance |-> covariance * CovUnitsPerOne]

\* if det_sigma < 0: det_sigma = 1e-6; covariance = 0.95 * covariance
Safeguard(det, covariance) ==
    IF det < 0
    THEN [det_sigma |-> ClampedDetSigma, covariance |-> ShrunkCovarianceUnits * covariance]
    ELSE [det_sigma |-> det * DetUnitsPerOne, covariance |-> covariance * CovUnitsPerOne]

\* the term np.exp(args) that one pair adds to yhf_pdf_grid: inv_sigma is
\* 1 / det_sigma * [[var2, -covariance], [-covariance, var1]] and c is
\* sqrt(4 pi^2 det_sigma)
PairTerm(num1, num2, mean1, mean2, var1, var2, k) ==
    LET covariance == k.v[num1 + 1][num2 + 1]
        det_sigma == var1 * var2 - covariance * covariance
        safe == Safeguard(det_sigma, covariance)
    IN  [num1 |-> num1, num2 |-> num2, mean1 |-> mean1, mean2 |-> mean2,
         k_post |-> covariance, det |-> det_sigma,
         inv_sigma |-> [det_sigma |-> safe.det_sigma,
                        m |-> <<<<var2 * CovUnitsPerOne, -safe.covariance>>,
                                <<-safe.covariance, var1 * CovUnitsPerOne>>>>],
         c |-> [sqrt_of_4_pi2_times |-> safe.det_sigma]]

VarInit ==
    /\ features_config = "no_features"
    /\ X_cols = NoCols
    /\ num_features = NoNumber
    /\ high_fidelity_model = FALSE
    /\ predictive_var_bool = TRUE
    /\ no_features_comparison_bool = FALSE
    /\ \E N \in 1..MaxPoints :
         /\ X_mc = Arr2(MonteCarloInput(N, FALSE))
         /\ Y_LFs_mc = LFOutput(N)
         /\ Y_HF_mc = HFOutput(N)
         /\ X_train = Arr2(<<RowA>>)
         /\ Y_LFs_train = TakeRows(LFOutput(N), <<0>>)
         /\ training_indices = Arr1(<<0>>)
         /\ Z_train = Y_LFs_train
         /\ Z_mc = Y_LFs_mc
         /\ Y_HF_train = LookupYHF(Y_HF_mc, <<0>>)
         /\ m_f_mc = Column([n \in 1..N |-> 10 + n])
         /\ var_y_mc \in {Column(s) : s \in [1..N -> VarValues]}
         /\ calc \in {[pc |-> "start", k_post |-> k, pos |-> 0, i |-> 0,
                       yhf_pdf_grid |-> <<>>] : k \in KPosts(N)}
    /\ gammas_ext_mc = None
    /\ gammas_ext_train = None
    /\ f_mean_train = Column(<<11>>)
    /\ p_yhf_mean = PYhfMean(m_f_mc, var_y_mc)
    /\ p_yhf_var = None
    /\ p_yhf_mc = EstimatePdf(Y_HF_mc)
    /\ p_ylf_mc = EstimatePdf(Y_LFs_mc)
    /\ probabilistic_mapping = SetupAndTrain(Z_train, Y_HF_train)
    /\ todo = <<"compute_pyhf_statistics", "return_output">>
    /\ call = "evaluate"
    /\ samples = "s1"
    /\ p_yhf_mean_BMFMC = None
    /\ p_yhf_var_BMFMC = None
    /\ output = None
    /\ err = NoErr
    /\ log = <<"pass", "hf_lookup", "hf_data", "setup", "train", "predict", "predict">>

\* the statements before the loops: k_post is in place, i = 1, yhf_pdf_grid = 0
CalculatePYhfVarStart ==
    /\ calc.pc = "start"
    /\ calc' = [calc EXCEPT !.pc = "loop", !.pos = 1, !.i = 1, !.yhf_pdf_grid = <<>>]
    /\ UNCHANGED <<orchestrator, statistics, err>>

\* one pass through the body of the inner loop
PairIteration ==
    /\ calc.pc = "loop"
    /\ calc.pos <= Len(LoopPairs(NRows(m_f_mc.v), 0))
    /\ LET num1 == LoopPairs(NRows(m_f_mc.v), 0)[calc.pos][1]
           enum2 == LoopPairs(NRows(m_f_mc.v), 0)[calc.pos][2]
           \* num2 = num1 + num2
           num2 == num1 + enum2
           mean1 == m_f_mc.v[num1 + 1][1]
           var1 == var_y_mc.v[num1 + 1][1]
           mean2 == m_f_mc.v[num1 + 1 + enum2 + 1][1]
           var2 == var_y_mc.v[num1 + 1 + enum2 + 1][1]
       IN  IF num2 >= NCols(calc.k_post.v)
           THEN /\ calc' = [calc EXCEPT !.pc = "raised"]
                /\ err' = [type |-> "IndexError", at |-> "calculate_p_yhf_var"]
                /\ UNCHANGED statistics
           ELSE LET grid == Append(calc.yhf_pdf_grid,
                                   PairTerm(num1, num2, mean1, mean2, var1, var2, calc.k_post))
                IN  /\ calc' = [calc EXCEPT !.pos = @ + 1, !.i = @ + 1,
                                            !.yhf_pdf_grid = grid]
                    /\ p_yhf_var' =
                         [nd |-> 1, v |-> [what |-> "p_yhf_var", len |-> y_pdf_support_len,
                                           sum |-> grid, divisor |-> Divisor(calc.i + 1),
                                           discount |-> DiscountUnits,
                                           p_yhf_mean |-> p_yhf_mean]]
                    /\ UNCHANGED <<p_yhf_mean, err>>
    /\ UNCHANGED orchestrator

\* both loops are exhausted: calculate_p_yhf_var returns
CalculatePYhfVarReturn ==
    /\ calc.pc = "loop"
    /\ calc.pos > Len(LoopPairs(NRows(m_f_mc.v), 0))
    /\ calc' = [calc EXCEPT !.pc = "done"]
    /\ UNCHANGED <<orchestrator, statistics, err>>

VarNext ==
    \/ CalculatePYhfVarStart
    \/ PairIteration
    \/ CalculatePYhfVarReturn

VarSpec == VarInit /\ [][VarNext]_vars

-----------------------------------------------------------------------------
(* input_dim_red: get_random_fields_and_truncated_basis,                   *)
(* project_samples_on_truncated_basis and assemble_x_red_stdizd.  A column *)
(* of a matrix is named by what it holds: <<"x", c>> is column c of X_mc,  *)
(* <<name, mode>> the coefficient of a field's samples on one eigenmode.   *)
(* The locals of the functions are the record calc.                        *)

\* largest number of random fields among the parameters
MaxFields == 2
\* columns of X_mc that belong to uncorrelated random variables
num_random_var == 1
\* dimension (number of sample columns) of every random field
FieldDimension == 2
\* explained_var=95 of the call in input_dim_red
explained_var == 95

\* eigenvals of a field: the cumulative explained variance in percent
EigenvalueProfiles ==
    {<<100>>, <<95, 100>>, <<60, 100>>, <<60, 95, 100>>, <<60, 80, 100>>}

\* the BMFMCModel after __init__ and load_sampling_data, for two Monte-Carlo
\* rows, before the iterator has selected training data
FreshModel ==
    /\ features_config = "opt_features"
    /\ X_cols = NoCols
    /\ num_features = [kind |-> "int", n |-> 1]
    /\ high_fidelity_model = FALSE
    /\ predictive_var_bool = FALSE
    /\ no_features_comparison_bool = FALSE
    /\ X_mc = Arr2(MonteCarloInput(2, FALSE))
    /\ Y_LFs_mc = LFOutput(2)
    /\ Y_HF_mc = HFOutput(2)
    /\ X_train = None
    /\ Y_LFs_train = None
    /\ training_indices = None
    /\ gammas_ext_mc = None
    /\ gammas_ext_train = None
    /\ Y_HF_train = None
    /\ Z_train = None
    /\ Z_mc = None
    /\ m_f_mc = None
    /\ var_y_mc = None
    /\ f_mean_train = None
    /\ p_yhf_mean = None
    /\ p_yhf_var = None
    /\ p_yhf_mc = None
    /\ p_ylf_mc = None
    /\ probabilistic_mapping = UntrainedMapping
    /\ todo = <<>>
    /\ call = "none"
    /\ samples = "none"
    /\ p_yhf_mean_BMFMC = None
    /\ p_yhf_var_BMFMC = None
    /\ output = None
    /\ err = NoErr
    /\ log = <<>>

\* the random fields of self.parameters, in order, with their eigenvals
RandomFields(R) ==
    {[k \in 1..R |-> [name |-> k, dimension |-> FieldDimension, eigenvals |-> e[k]]] :
        e \in [1..R -> EigenvalueProfiles]}

\* a[lo:hi] of a sequence (0-based, hi exclusive; a slice never fails)
Slice(a, lo, hi) ==
    LET h == IF hi < Len(a) THEN hi ELSE Len(a)
    IN  IF lo >= h THEN <<>> ELSE SubSeq(a, lo + 1, h)

\* [idx for idx, eigenval in enumerate(eigenvals) if eigenval >= explained_var]
IndicesAtThreshold(eigenvals) == {idx \in 0..(Len(eigenvals) - 1) : eigenvals[idx + 1] >= explained_var}

\* the modes 0 .. Len - 1 of a basis with one mode per eigenvalue
Basis(eigenvals) == [m \in 1..Len(eigenvals) |-> m - 1]

\* basis[1][0:idx_truncation]
TruncBasis(eigenvals, idx_truncation) == Slice(Basis(eigenvals), 0, idx_truncation)

\* random_fields_trunc_dict = {random_field[0]: {...}} in the loop body: a new
\* dictionary with this field alone
DictAssigned(dict, entry) == <<entry>>

RedInit ==
    /\ FreshModel
    /\ \E R \in 0..MaxFields :
         calc \in {[pc |-> "fields", random_fields_list |-> f, field |-> 1,
                    dim_random_fields |-> 0, random_fields_trunc_dict |-> <<>>,
                    x_uncorr |-> <<>>, coefs_mat |-> <<>>, x_red |-> <<>>] :
                      f \in RandomFields(R)}

\* one iteration of the loop over the random fields
FieldIteration ==
    /\ calc.pc = "fields"
    /\ calc.field <= Len(calc.random_fields_list)
    /\ LET random_field == calc.random_fields_list[calc.field]
           first == num_random_var + calc.dim_random_fields
           entry(idx) == [name |-> random_field.name,
                          samples |-> [c \in 1..random_field.dimension |-> <<"x", first + c - 1>>],
                          trunc_basis |-> TruncBasis(random_field.eigenvals, idx)]
       IN  IF IndicesAtThreshold(random_field.eigenvals) = {}
           THEN /\ calc' = [calc EXCEPT !.pc = "raised"]
                /\ err' = [type |-> "IndexError", at |-> "get_random_fields_and_truncated_basis"]
           ELSE /\ calc' = [calc EXCEPT
                     !.random_fields_trunc_dict =
                         DictAssigned(@, entry(Min(IndicesAtThreshold(random_field.eigenvals)))),
                     !.dim_random_fields = @ + random_field.dimension,
                     !.field = @ + 1]
                /\ err' = err
    /\ UNCHANGED <<orchestrator, statistics>>

\* get_random_fields_and_truncated_basis returns x_uncorr and the dictionary
\* (None, here the empty dictionary with pc "assemble", without random fields)
ReturnTruncatedBasis ==
    /\ calc.pc = "fields"
    /\ calc.field > Len(calc.random_fields_list)
    /\ calc' = [calc EXCEPT
                  !.x_uncorr = [c \in 1..num_random_var |-> <<"x", c - 1>>],
                  !.pc = IF Len(calc.random_fields_list) = 0 THEN "assemble" ELSE "project"]
    /\ UNCHANGED <<orchestrator, statistics, err>>

\* the columns of np.dot(samples, trunc_basis.T): one per mode of the basis
Coefficients(entry) == [m \in 1..Len(entry.trunc_basis) |-> <<entry.name, entry.trunc_basis[m]>>]

RECURSIVE HstackCoefficients(_)
HstackCoefficients(dict) ==
    IF dict = <<>> THEN <<>>
    ELSE Coefficients(Head(dict)) \o HstackCoefficients(Tail(dict))

ProjectSamplesOnTruncatedBasis ==
    /\ calc.pc = "project"
    /\ calc' = [calc EXCEPT !.coefs_mat = HstackCoefficients(calc.random_fields_trunc_dict),
                            !.pc = "assemble"]
    /\ UNCHANGED <<orchestrator, statistics, err>>

\* assemble_x_red_stdizd: the columns of x_red (standardizing keeps the columns)
AssembleXRedStdizd ==
    /\ calc.pc = "assemble"
    /\ calc' = [calc EXCEPT !.x_red = calc.x_uncorr \o calc.coefs_mat, !.pc = "done"]
    /\ UNCHANGED <<orchestrator, statistics, err>>

RedNext ==
    \/ FieldIteration
    \/ ReturnTruncatedBasis
    \/ ProjectSamplesOnTruncatedBasis
    \/ AssembleXRedStdizd

RedSpec == RedInit /\ [][RedNext]_vars

-----------------------------------------------------------------------------
(* calculate_extended_gammas: the greedy ranking of the columns of x_red.  *)
(* A candidate is the number of its column in x_red; an entry of           *)
(* gammas_ext_mc is named by its row and by the candidates whose columns   *)
(* test_iter adds up.                                                      *)

\* largest number of columns of x_red
MaxCandidates == 3
\* values of |x_red[:, c] . Y_LFS_mc_stdized|, the score of a candidate
ScoreValues == {1, 2, 3}

Max(S) == CHOOSE x \in S : \A y \in S : x >= y

\* select_bool = corr_coef_unnorm == np.max(corr_coef_unnorm)
SelectBool(corr_coef_unnorm) ==
    [k \in 1..Len(corr_coef_unnorm) |->
        corr_coef_unnorm[k] = Max({corr_coef_unnorm[j] : j \in 1..Len(corr_coef_unnorm)})]

\* x_iter_test[:, ~select_bool[:, 0]]
RECURSIVE Unselected(_, _)
Unselected(x_iter_test, select_bool) ==
    IF x_iter_test = <<>> THEN <<>>
    ELSE (IF Head(select_bool) THEN <<>> ELSE <<Head(x_iter_test)>>)
             \o Unselected(Tail(x_iter_test), Tail(select_bool))

\* np.dot(x_iter_test, select_bool), scaled by linear_scale_a_to_b: one column
\* with, in every row, the sum over the selected candidates
FeaturesTest(x_iter_test, select_bool) ==
    LET chosen == {x_iter_test[k] : k \in {j \in 1..Len(x_iter_test) : select_bool[j]}}
    IN  Arr2([r \in 1..NRows(X_mc.v) |-> <<[row |-> r - 1, sum_of |-> chosen]>>])

GammaInit ==
    /\ FreshModel
    /\ \E d \in 1..MaxCandidates :
         calc \in {[pc |-> "start", x_red |-> [c \in 1..d |-> c], score |-> s,
                    x_iter_test |-> <<>>, counter |-> 0] :
                      s \in [1..d -> ScoreValues]}

\* x_iter_test = x_red; self.gammas_ext_mc = np.empty((x_iter_test.shape[0], 0))
CalculateExtendedGammasStart ==
    /\ calc.pc = "start"
    /\ calc' = [calc EXCEPT !.x_iter_test = calc.x_red, !.pc = "loop"]
    /\ gammas_ext_mc' = Arr2([r \in 1..NRows(X_mc.v) |-> <<>>])
    /\ UNCHANGED <<config, data, gammas_ext_train, Y_HF_train, features, predictions,
                   statistics, reference, probabilistic_mapping, todo, call, samples,
                   locals, output, err, log>>

\* one iteration of `for counter in range(x_red.shape[1])`; np.max of an
\* empty array raises ValueError
SelectIteration ==
    /\ calc.pc = "loop"
    /\ calc.counter < Len(calc.x_red)
    /\ LET corr_coef_unnorm == [k \in 1..Len(calc.x_iter_test) |-> calc.score[calc.x_iter_test[k]]]
           select_bool == SelectBool(corr_coef_unnorm)
       IN  IF corr_coef_unnorm = <<>>
           THEN /\ calc' = [calc EXCEPT !.pc = "raised"]
                /\ err' = [type |-> "ValueError", at |-> "calculate_extended_gammas"]
                /\ UNCHANGED gammas_ext_mc
           ELSE /\ calc' = [calc EXCEPT
                              !.x_iter_test = Unselected(calc.x_iter_test, select_bool),
                              !.counter = @ + 1]
                /\ gammas_ext_mc' = Hstack(gammas_ext_mc, FeaturesTest(calc.x_iter_test, select_bool))
                /\ err' = err
    /\ UNCHANGED <<config, data, gammas_ext_train, Y_HF_train, features, predictions,
                   statistics, reference, probabilistic_mapping, todo, call, samples,
                   locals, output, log>>

\* the loop is over: calculate_extended_gammas returns
CalculateExtendedGammasReturn ==
    /\ calc.pc = "loop"
    /\ calc.counter = Len(calc.x_red)
    /\ calc' = [calc EXCEPT !.pc = "done"]
    /\ UNCHANGED <<orchestrator, statistics, err>>

GammaNext ==
    \/ CalculateExtendedGammasStart
    \/ SelectIteration
    \/ CalculateExtendedGammasReturn

GammaSpec == GammaInit /\ [][GammaNext]_vars

-----------------------------------------------------------------------------
(* Properties *)

Range(s) == {s[i] : i \in 1..Len(s)}

\* the events the current step appends to the log
Appended == SubSeq(log', Len(log) + 1, Len(log'))

Succeeded == Idle /\ err.type = "none"

\* C1: get_hf_training_data with X_train set evaluates the HF model iff a HF
\* model is configured and Y_HF_mc is None, looks Y_HF_train up iff Y_HF_mc is
\* present and no HF model is configured, and otherwise raises an error without
\* evaluating the HF model and without changing Y_HF_train.
C1_ExactlyOnePath ==
    [][(At("get_hf_training_data") /\ ~IsNone(X_train)) =>
         LET hf == high_fidelity_model
             mc == ~IsNone(Y_HF_mc)
         IN  /\ ("hf_evaluate" \in Range(Appended)) <=> (hf /\ ~mc)
             /\ ("hf_lookup" \in Range(Appended)) <=> (mc /\ ~hf)
             /\ (hf <=> mc) =>
                  /\ err'.type = "RuntimeError"
                  /\ todo' = <<>>
                  /\ Y_HF_train' = Y_HF_train]_vars

C1_Witness ==
    /\ call = "get_hf_training_data"
    /\ high_fidelity_model
    /\ ~IsNone(Y_HF_mc)
    /\ ~IsNone(X_train)
    /\ err = [type |-> "RuntimeError", at |-> "get_hf_training_data"]

\* C2: on the lookup path every Y_HF_train[i] is Y_HF_mc[j] for the first row j
\* of X_mc that equals X_train[i], Y_HF_train has one row per X_train row, and
\* if some X_train row equals no X_mc row an IndexError is raised and
\* Y_HF_train is not assigned.
C2_LookupFirstMatch ==
    [][(At("get_hf_training_data") /\ ~IsNone(X_train)
          /\ ~IsNone(Y_HF_mc) /\ ~high_fidelity_model) =>
         LET Xt == X_train.v
             Xm == X_mc.v
             First(i, j) == Xm[j] = Xt[i] /\ \A l \in 1..(j - 1) : Xm[l] # Xt[i]
         IN  IF \A i \in 1..Len(Xt) : \E j \in 1..Len(Xm) : Xm[j] = Xt[i]
             THEN /\ err'.type = "none"
                  /\ Y_HF_train'.nd = 2
                  /\ Len(Y_HF_train'.v) = Len(Xt)
                  /\ \A i \in 1..Len(Xt) : \E j \in 1..Len(Xm) :
                       First(i, j) /\ Y_HF_train'.v[i] = <<Y_HF_mc.v[j]>>
             ELSE /\ err'.type = "IndexError"
                  /\ Y_HF_train' = Y_HF_train]_vars

\* the second of two equal X_mc rows was selected, and the first one is looked up
C2_Witness ==
    /\ call = "get_hf_training_data"
    /\ Succeeded
    /\ ~high_fidelity_model
    /\ Len(X_mc.v) >= 2
    /\ X_mc.v[1] = X_mc.v[2]
    /\ X_train.v = <<X_mc.v[2]>>
    /\ training_indices.nd = 1
    /\ training_indices.v = <<1>>
    /\ Y_HF_train = Arr2(<<<<Y_HF_mc.v[1]>>>>)


\* the phase an event of the log belongs to: 1 HF training data obtained,
\* 2 mapping built, 3 mapping evaluated, 4 statistics computed, 0 no phase
Phase(e) ==
    CASE e = "hf_data" -> 1
      [] e \in {"setup", "train"} -> 2
      [] e = "predict" -> 3
      [] e = "stats" -> 4
      [] OTHER -> 0

\* no event of an earlier phase follows an event of a later phase in log[lo..hi]
Linear(lo, hi) ==
    \A i, j \in lo..hi :
        (i < j /\ Phase(log[i]) > 0 /\ Phase(log[j]) > 0) => Phase(log[i]) <= Phase(log[j])

Ordered(i, j) ==
    \/ Phase(log[i]) = 0
    \/ Phase(log[j]) = 0
    \/ Phase(log[i]) <= Phase(log[j])
    \/ features_config = "opt_features" /\ Phase(log[i]) = 3 /\ Phase(log[j]) = 2

EvaluateKeys ==
    {"Z_mc", "m_f_mc", "var_y_mc", "y_pdf_support", "p_yhf_mean", "p_yhf_var",
     "p_yhf_mean_BMFMC", "p_yhf_var_BMFMC", "p_ylf_mc", "p_yhf_mc", "Z_train",
     "X_train", "Y_HF_train"}

\* C4: every successful evaluate returns a dictionary with exactly the thirteen
\* keys, whose entries are the model's fields whatever `samples` was passed;
\* p_yhf_mean_BMFMC and p_yhf_var_BMFMC are None when
\* no_features_comparison_bool is False.
C4_OutputContract ==
    (call = "evaluate" /\ Succeeded) =>
        /\ DOMAIN output = EvaluateKeys
        /\ ~no_features_comparison_bool =>
               IsNone(output.p_yhf_mean_BMFMC) /\ IsNone(output.p_yhf_var_BMFMC)
        /\ output.Z_mc = Z_mc /\ output.Z_train = Z_train
        /\ output.X_train = X_train /\ output.Y_HF_train = Y_HF_train
        /\ output.m_f_mc = m_f_mc /\ output.var_y_mc = var_y_mc
        /\ output.p_yhf_mean = p_yhf_mean /\ output.p_yhf_var = p_yhf_var
        /\ output.p_ylf_mc = p_ylf_mc /\ output.p_yhf_mc = p_yhf_mc
        /\ output.y_pdf_support.v.len = y_pdf_support_len

C4_Witness ==
    /\ call = "evaluate"
    /\ Succeeded
    /\ samples = "s2"
    /\ ~no_features_comparison_bool
    /\ DOMAIN output = EvaluateKeys
    /\ ~IsNone(output.p_yhf_mean)
    /\ ~IsNone(output.p_yhf_var)

\* C5: with features_config = "no_features", set_feature_strategy leaves
\* Z_train = Y_LFs_train and Z_mc = Y_LFs_mc, and the mapping (the model was
\* built with one) is then trained on exactly (Y_LFs_train, Y_HF_train).
C5_NoFeaturesPassThrough ==
    [][features_config = "no_features" =>
         /\ At("set_feature_strategy") =>
              /\ err'.type = "none"
              /\ Z_train' = Y_LFs_train
              /\ Z_mc' = Y_LFs_mc
         /\ (At("interface_build_Z_train") /\ probabilistic_mapping # None) =>
              probabilistic_mapping' = [X |-> Y_LFs_train, Y |-> Y_HF_train, trained |-> TRUE]]_vars

C5_Witness ==
    /\ features_config = "no_features"
    /\ call = "build_approximation_features"
    /\ Succeeded
    /\ Len(X_mc.v) = 2
    /\ Len(X_train.v) = 1
    /\ Z_train = Y_LFs_train
    /\ Z_mc = Y_LFs_mc
    /\ probabilistic_mapping = [X |-> Y_LFs_train, Y |-> Y_HF_train, trained |-> TRUE]


\* X[:, X_cols] for a list X_cols: one column per listed index
SelectedColumns(X) ==
    Arr2([i \in 1..Len(X) |-> [j \in 1..Len(X_cols.cs) |-> X[i][X_cols.cs[j] + 1]]])

\* C6: with man_features and X_cols a list of k column indices,
\* set_feature_strategy succeeds with Z_mc = hstack(Y_LFs_mc, X_mc[:, X_cols])
\* and Z_train = hstack(Y_LFs_train, X_train[:, X_cols]): the rows are kept and
\* Z has Y_LF.shape[1] + k columns.
C6_ManFeaturesShape ==
    [][(At("set_feature_strategy") /\ features_config = "man_features"
          /\ X_cols.kind = "list" /\ ~IsNone(X_train)) =>
         /\ err'.type = "none"
         /\ Z_mc' = Hstack(Y_LFs_mc, SelectedColumns(X_mc.v))
         /\ Z_train' = Hstack(Y_LFs_train, SelectedColumns(X_train.v))
         /\ Shape(Z_mc') = <<Len(X_mc.v), NCols(Y_LFs_mc.v) + Len(X_cols.cs)>>
         /\ Shape(Z_train') = <<Len(X_train.v), NCols(Y_LFs_train.v) + Len(X_cols.cs)>>]_vars

\* C7 as stated: coord_features is accepted: set_feature_strategy does not raise
\* for it and builds Z_train and Z_mc.
C7_CoordAccepted ==
    [][(At("set_feature_strategy") /\ features_config = "coord_features") =>
         /\ err'.type = "none"
         /\ ~IsNone(Z_mc')
         /\ (~IsNone(Y_LFs_train) => ~IsNone(Z_train'))]_vars

\* C7 amended: coord_features is not a strategy of set_feature_strategy: it
\* raises the IOError of an unknown strategy and leaves Z_train, Z_mc and the
\* extended features as they were.
C7_CoordRejected ==
    [][(At("set_feature_strategy") /\ features_config = "coord_features") =>
         /\ err' = [type |-> "IOError", at |-> "set_feature_strategy"]
         /\ todo' = <<>>
         /\ UNCHANGED <<features, gammas, probabilistic_mapping>>]_vars

C7_Witness ==
    /\ features_config = "coord_features"
    /\ call = "set_feature_strategy"
    /\ err = [type |-> "IOError", at |-> "set_feature_strategy"]
    /\ ~IsNone(X_train)
    /\ IsNone(Z_train)
    /\ IsNone(Z_mc)

KnownStrategies == {"man_features", "opt_features", "no_features"}

\* C8: with an unknown features_config, set_feature_strategy raises, Z_train and
\* Z_mc keep their values, and build_approximation(approx_case=True) does not
\* train the mapping.
C8_UnknownFailsFast ==
    [][features_config \notin KnownStrategies =>
         /\ At("set_feature_strategy") =>
              /\ err'.type = "IOError"
              /\ todo' = <<>>
              /\ UNCHANGED <<features, probabilistic_mapping>>
         /\ call' = "build_approximation_features" =>
              /\ "setup" \notin Range(log')
              /\ "train" \notin Range(log')
              /\ probabilistic_mapping' = probabilistic_mapping]_vars

\* build_approximation(approx_case=True) obtained the HF data and then failed
C8_Witness ==
    /\ features_config = "pca_features"
    /\ call = "build_approximation_features"
    /\ err = [type |-> "IOError", at |-> "set_feature_strategy"]
    /\ ~IsNone(Y_HF_train)
    /\ IsNone(Z_train)
    /\ IsNone(Z_mc)
    /\ probabilistic_mapping = UntrainedMapping

\* the configuration is invalid: unknown strategy, or opt_features without a
\* number of features >= 1
InvalidConfiguration ==
    \/ features_config \notin KnownStrategies \cup {"coord_features"}
    \/ features_config = "opt_features" /\ (num_features.kind = "none" \/ num_features.n < 1)

\* C9: when evaluate is called with an invalid configuration, the error is
\* raised before the HF model is evaluated on X_train and before the mapping's
\* setup/train is invoked.
C9_ErrorBeforeWork ==
    (call = "evaluate" /\ InvalidConfiguration) =>
        /\ "hf_evaluate" \notin Range(log)
        /\ "setup" \notin Range(log)
        /\ "train" \notin Range(log)

\* C10: with opt_features, set_feature_strategy raises a configuration error
\* (the ValueError for an invalid number of features) both when num_features is
\* an integer < 1 and when it is None; Z_mc and Z_train are not rebuilt and
\* update_probabilistic_mapping_with_features is not entered.
C10_InvalidNumFeatures ==
    [][(At("set_feature_strategy") /\ features_config = "opt_features"
          /\ (num_features.kind = "none" \/ num_features.n < 1)) =>
         /\ err' = [type |-> "ValueError", at |-> "set_feature_strategy"]
         /\ todo' = <<>>
         /\ UNCHANGED features]_vars

\* the exceptions the model raises for an invalid configuration (lines 641, 651)
ConfigurationErrors == {"ValueError", "IOError"}

\* C11: with man_features and X_cols None (and the training data set by the
\* iterator), set_feature_strategy raises a configuration error instead of
\* building a feature matrix: the error is raised before the missing column
\* index is used, so that neither the extended features nor Z_train / Z_mc are
\* assigned.
C11_MissingColumnsRejected ==
    [][(At("set_feature_strategy") /\ features_config = "man_features"
          /\ X_cols.kind = "none" /\ ~IsNone(X_train)) =>
         /\ err'.type \in ConfigurationErrors
         /\ todo' = <<>>
         /\ UNCHANGED <<gammas, features>>]_vars

\* C12: BmfmcInterface.build_approximation called while the probabilistic
\* mapping is None fails with the RuntimeError that evaluate raises for an
\* unset mapping ("has not been properly initialized"), and nothing is trained.
C12_UnsetMappingRuntimeError ==
    [][(probabilistic_mapping = None
          /\ (At("interface_build_Z_train") \/ At("interface_build_Y_LFs_train"))) =>
         /\ err'.type = InterfaceEvaluateOutcome(None, FALSE)
         /\ err'.type = "RuntimeError"
         /\ todo' = <<>>
         /\ probabilistic_mapping' = None]_vars

\* the fields of the orchestrator and the mapping
ModelState ==
    <<config, data, gammas, Y_HF_train, features, predictions, statistics,
      reference, probabilistic_mapping>>

\* C13: gradient evaluation is never a silent no-op: BMFMCModel.grad raises
\* NotImplementedError, and BmfmcInterface.evaluate with gradient_bool = True
\* and a mapping set raises NotImplementedError without calling predict; in
\* both cases no field of the orchestrator or of the mapping changes.
C13_GradientRaises ==
    [][(At("grad")
          \/ (At("interface_evaluate_gradient") /\ probabilistic_mapping # None)) =>
         /\ err' = [type |-> "NotImplementedError", at |-> Head(todo)]
         /\ todo' = <<>>
         /\ "predict" \notin Range(Appended)
         /\ UNCHANGED ModelState]_vars

\* the gradient was asked of a trained mapping
C13_Witness ==
    /\ probabilistic_mapping # None
    /\ probabilistic_mapping.trained
    /\ call = "interface_evaluate_gradient"
    /\ err = [type |-> "NotImplementedError", at |-> "interface_evaluate_gradient"]
    /\ log = <<"raise">>

AtInterfaceBuild == At("interface_build_Z_train") \/ At("interface_build_Y_LFs_train")

\* C14: each call of BmfmcInterface.build_approximation(Z, Y) (with a mapping
\* set) invokes setup(Z, Y) once and then train() once; afterwards the mapping
\* holds the (Z, Y) of this call, whatever it held before, and no other step
\* sets up, trains or changes the mapping: its training data are those of the
\* last call.
C14_SetupThenTrainOnce ==
    [][/\ (AtInterfaceBuild /\ probabilistic_mapping # None) =>
            /\ Appended = <<"setup", "train">>
            /\ probabilistic_mapping' =
                 [X |-> IF At("interface_build_Z_train") THEN Z_train ELSE Y_LFs_train,
                  Y |-> Y_HF_train, trained |-> TRUE]
       /\ ~AtInterfaceBuild =>
            /\ "setup" \notin Range(Appended)
            /\ "train" \notin Range(Appended)
            /\ probabilistic_mapping' = probabilistic_mapping]_vars

\* evaluate with the comparison pass trained the mapping on Y_LFs_train and
\* then on a different Z_train: only the second training set is held
C14_Witness ==
    /\ Succeeded
    /\ call = "evaluate"
    /\ no_features_comparison_bool
    /\ Z_train # Y_LFs_train
    /\ Len(SelectSeq(log, LAMBDA e : e = "setup")) = 2
    /\ Len(SelectSeq(log, LAMBDA e : e = "train")) = 2
    /\ probabilistic_mapping = [X |-> Z_train, Y |-> Y_HF_train, trained |-> TRUE]

\* the rows of a 2-D array
Rows(a) == Range(a.v)

\* X_train's rows are rows of X_mc and Y_LFs_train holds the corresponding rows
\* of Y_LFs_mc
ConsistentTrainingData ==
    /\ ~IsNone(X_train)
    /\ ~IsNone(Y_LFs_train)
    /\ NRows(X_train.v) = NRows(Y_LFs_train.v)
    /\ \A k \in 1..NRows(X_train.v) : \E i \in 1..NRows(X_mc.v) :
         X_train.v[k] = X_mc.v[i] /\ Y_LFs_train.v[k] = Y_LFs_mc.v[i]

\* C15: after build_approximation(approx_case=True) has completed, with any
\* feature strategy and consistent training data, every row of Z_train is a
\* row of Z_mc.
C15_RowSubset ==
    (Succeeded /\ call = "build_approximation_features" /\ ConsistentTrainingData) =>
        /\ Z_train.nd = 2
        /\ Z_mc.nd = 2
        /\ Rows(Z_train) \subseteq Rows(Z_mc)

MainState ==
    <<m_f_mc, var_y_mc, f_mean_train, p_yhf_mean, p_yhf_var, Y_HF_train,
      Z_train, Z_mc, probabilistic_mapping>>

\* C17: run_BMFMC_without_features does not mutate the main state: no step of
\* the comparison pass changes m_f_mc, var_y_mc, f_mean_train, p_yhf_mean,
\* p_yhf_var, Y_HF_train, Z_train, Z_mc or the mapping's training data; its
\* results are carried only by the returned pair.
C17_ComparisonPassIsPure ==
    [][(todo # <<>> /\ "return_without_features" \in Range(todo)) =>
         UNCHANGED MainState]_vars

\* C18: after compute_pyhf_statistics has completed, for every number N >= 1 of
\* Monte-Carlo points, p_yhf_mean has the length of y_pdf_support; with
\* predictive_var_bool p_yhf_var is a vector of that length computed from the
\* current m_f_mc and var_y_mc, and without it p_yhf_var is None.
C18_StatisticsShape ==
    [][(At("compute_pyhf_statistics") /\ err'.type = "none") =>
         /\ p_yhf_mean'.nd = 1
         /\ p_yhf_mean'.v.len = y_pdf_support_len
         /\ predictive_var_bool =>
              /\ p_yhf_var'.nd = 1
              /\ p_yhf_var'.v.len = y_pdf_support_len
              /\ p_yhf_var'.v.m_f_mc = m_f_mc
              /\ p_yhf_var'.v.var_y_mc = var_y_mc
         /\ ~predictive_var_bool => p_yhf_var' = None]_vars

\* C19: in calculate_p_yhf_var, for every pair whose determinant
\* var1 * var2 - covariance^2 is negative, det_sigma = 1e-6 and
\* covariance = 0.95 * covariance are used in the inverse covariance and in
\* the normalisation, nothing is raised, the loop goes on to the next pair,
\* and no negative determinant reaches the square root.
C19_DeterminantClamp ==
    [][LET pr == LoopPairs(NRows(m_f_mc.v), 0)[calc.pos]
           first == pr[1] + 1
           second == pr[1] + pr[2] + 2
           column == pr[1] + pr[2] + 1
           covariance == calc.k_post.v[first][column]
           det == var_y_mc.v[first][1] * var_y_mc.v[second][1] - covariance * covariance
           term == calc'.yhf_pdf_grid[Len(calc'.yhf_pdf_grid)]
       IN  (/\ calc.pc = "loop"
            /\ calc.pos <= Len(LoopPairs(NRows(m_f_mc.v), 0))
            /\ column <= NCols(calc.k_post.v)
            /\ det < 0) =>
               /\ err' = NoErr
               /\ calc'.pc = "loop"
               /\ calc'.pos = calc.pos + 1
               /\ Len(calc'.yhf_pdf_grid) = Len(calc.yhf_pdf_grid) + 1
               /\ term.inv_sigma.det_sigma = ClampedDetSigma
               /\ term.inv_sigma.m[1][2] = -(ShrunkCovarianceUnits * covariance)
               /\ term.inv_sigma.m[2][1] = -(ShrunkCovarianceUnits * covariance)
               /\ term.c.sqrt_of_4_pi2_times = ClampedDetSigma
               /\ \A n \in 1..Len(calc'.yhf_pdf_grid) :
                    calc'.yhf_pdf_grid[n].c.sqrt_of_4_pi2_times >= 0]_vars

\* the loop over three points has returned; the determinant of its first pair
\* was negative and was replaced, and the later pairs were processed
C19_Witness ==
    /\ calc.pc = "done"
    /\ err = NoErr
    /\ Len(calc.yhf_pdf_grid) = 3
    /\ calc.yhf_pdf_grid[1].det < 0
    /\ calc.yhf_pdf_grid[1].inv_sigma.det_sigma = ClampedDetSigma
    /\ calc.yhf_pdf_grid[1].inv_sigma.m[1][2] = -190
    /\ p_yhf_var.v.divisor = 3

\* C20: with opt_features, num_features >= 1 (and the extended features
\* computed), update_probabilistic_mapping_with_features with training_indices
\* set rebuilds Z_mc = hstack(Y_LFs_mc, first num_features columns of
\* gammas_ext_mc), with exactly Y_LFs_mc.shape[1] + num_features columns, and
\* Z_train as the rows training_indices of Z_mc; with training_indices None it
\* raises ValueError and the mapping is not trained.
C20_OptFeaturesMatrix ==
    [][(At("update_probabilistic_mapping_with_features")
          /\ num_features.kind = "int" /\ num_features.n >= 1
          /\ ~IsNone(gammas_ext_mc)) =>
         IF ~IsNone(training_indices)
         THEN /\ err'.type = "none"
              /\ Z_mc'.nd = 2
              /\ NRows(Z_mc'.v) = NRows(Y_LFs_mc.v)
              /\ NCols(Z_mc'.v) = NCols(Y_LFs_mc.v) + num_features.n
              /\ \A i \in 1..NRows(Z_mc'.v), j \in 1..NCols(Z_mc'.v) :
                   Z_mc'.v[i][j] = IF j <= NCols(Y_LFs_mc.v) THEN Y_LFs_mc.v[i][j]
                                   ELSE gammas_ext_mc.v[i][j - NCols(Y_LFs_mc.v)]
              /\ Z_train' = Arr2([k \in 1..Len(training_indices.v) |->
                                    Z_mc'.v[training_indices.v[k] + 1]])
         ELSE /\ err' = [type |-> "ValueError",
                         at |-> "update_probabilistic_mapping_with_features"]
              /\ todo' = <<>>
              /\ "setup" \notin Range(Appended)
              /\ "train" \notin Range(Appended)
              /\ probabilistic_mapping' = probabilistic_mapping]_vars

\* C21: the variance-of-density step obtains the full pairwise posterior
\* covariance matrix: the k_post that calculate_p_yhf_var uses comes from the
\* interface's evaluate on the Monte-Carlo feature set with full_cov = True.
C21_FullCovarianceRequested ==
    [][(At("compute_pyhf_statistics") /\ predictive_var_bool
          /\ err'.type = "none" /\ p_yhf_var' # p_yhf_var) =>
         /\ p_yhf_var'.v.k_post = Predict(probabilistic_mapping, Transpose(Z_mc), TRUE).variance
         /\ p_yhf_var'.v.k_post.v.what = "covariance"]_vars

\* the terms of yhf_pdf_grid computed with the means of points i and j (1-based)
TermsOfPair(i, j) ==
    {n \in 1..Len(calc.yhf_pdf_grid) :
        /\ calc.yhf_pdf_grid[n].mean1 = m_f_mc.v[i][1]
        /\ calc.yhf_pdf_grid[n].mean2 = m_f_mc.v[j][1]}

\* C22: when calculate_p_yhf_var has gone through its loops (k_post being
\* N x N), every unordered pair (i, j), i < j, has been processed exactly
\* once, with the means m_f_mc[i], m_f_mc[j], the variances var_y_mc[i],
\* var_y_mc[j] and the off-diagonal entry k_post[i, j] as covariance.
C22_EveryPairOnce ==
    (calc.pc = "done" /\ NCols(calc.k_post.v) = NRows(m_f_mc.v)) =>
        LET N == NRows(m_f_mc.v)
        IN  /\ Len(calc.yhf_pdf_grid) = (N * (N - 1)) \div 2
            /\ \A i, j \in 1..N : i < j =>
                 /\ Cardinality(TermsOfPair(i, j)) = 1
                 /\ \A n \in TermsOfPair(i, j) :
                      LET term == calc.yhf_pdf_grid[n]
                      IN  /\ term.k_post = calc.k_post.v[i][j]
                          /\ term.det = var_y_mc.v[i][1] * var_y_mc.v[j][1]
                                          - calc.k_post.v[i][j] * calc.k_post.v[i][j]
                          /\ term.inv_sigma.m[1][1] = var_y_mc.v[j][1] * CovUnitsPerOne
                          /\ term.inv_sigma.m[2][2] = var_y_mc.v[i][1] * CovUnitsPerOne

\* C23: when calculate_p_yhf_var finishes for N >= 2 points, p_yhf_var is
\* (sum of all pair contributions) / (pair count) - 0.9995 * p_yhf_mean**2:
\* the divisor is N * (N - 1) / 2, the sum holds one contribution per pair,
\* and the value is the one stored after the last pair.
C23_FinalVariance ==
    (calc.pc = "done" /\ NRows(m_f_mc.v) >= 2) =>
        LET N == NRows(m_f_mc.v)
        IN  /\ p_yhf_var.nd = 1
            /\ p_yhf_var.v.divisor = (N * (N - 1)) \div 2
            /\ p_yhf_var.v.sum = calc.yhf_pdf_grid
            /\ Len(p_yhf_var.v.sum) = (N * (N - 1)) \div 2
            /\ \A i, j \in 1..N : i < j => Cardinality(TermsOfPair(i, j)) = 1
            /\ p_yhf_var.v.discount = 9995
            /\ p_yhf_var.v.p_yhf_mean = p_yhf_mean

\* three points, three pairs
C23_Witness ==
    /\ calc.pc = "done"
    /\ NRows(m_f_mc.v) = 3
    /\ Len(calc.yhf_pdf_grid) = 3
    /\ p_yhf_var.v.divisor = 3
    /\ calc.i = 4

\* a step of the comparison pass run_BMFMC_without_features
InComparisonPass == todo # <<>> /\ "return_without_features" \in Range(todo)

\* C24: run_BMFMC_without_features uses Y_LF as Z in every step: the mapping
\* is trained on (Y_LFs_train, Y_HF_train), the variance-of-density
\* computation evaluates the mapping on Y_LFs_mc and never reads Z_mc, so its
\* statistics step completes even when Z_mc has not been built.
C24_ComparisonPassUsesYLF ==
    [][InComparisonPass =>
         /\ (At("interface_build_Y_LFs_train") /\ probabilistic_mapping # None) =>
              probabilistic_mapping' = [X |-> Y_LFs_train, Y |-> Y_HF_train, trained |-> TRUE]
         /\ (At("compute_pyhf_statistics") /\ predictive_var_bool) =>
              /\ err'.type = "none"
              /\ p_yhf_var' # p_yhf_var =>
                   p_yhf_var'.v.k_post.v.samples = Transpose(Y_LFs_mc)]_vars

\* the random field whose entry is at position n of random_fields_trunc_dict
FieldOfEntry(n) ==
    CHOOSE f \in Range(calc.random_fields_list) : f.name = calc.random_fields_trunc_dict[n].name

\* idx_truncation of a field: the first index at which the cumulative
\* explained variance is >= explained_var
FirstIndexAtThreshold(f) == Min(IndicesAtThreshold(f.eigenvals))

\* C25: for each random field, the truncated basis that
\* get_random_fields_and_truncated_basis stores consists of the modes 0..idx
\* inclusive, idx being the first index at which the cumulative explained
\* variance is >= the threshold; so the kept prefix reaches the threshold and
\* is never empty.
C25_TruncatedBasisReachesThreshold ==
    \A n \in 1..Len(calc.random_fields_trunc_dict) :
        LET trunc_basis == calc.random_fields_trunc_dict[n].trunc_basis
            idx == FirstIndexAtThreshold(FieldOfEntry(n))
        IN  /\ trunc_basis = [m \in 1..(idx + 1) |-> m - 1]
            /\ trunc_basis # <<>>
            /\ FieldOfEntry(n).eigenvals[Len(trunc_basis)] >= explained_var

\* the dictionary entry that the loop body builds for field k of the list
EntryOfField(k) ==
    LET f == calc.random_fields_list[k]
    IN  [name |-> f.name,
         samples |-> [c \in 1..f.dimension |-> <<"x", num_random_var + (k - 1) * FieldDimension + c - 1>>],
         trunc_basis |-> TruncBasis(f.eigenvals, FirstIndexAtThreshold(f))]

\* C26: with R >= 1 random fields, the dictionary returned by
\* get_random_fields_and_truncated_basis has one entry (samples and truncated
\* basis) per random field, and the reduced input returned by input_dim_red is
\* the uncorrelated columns followed by the projection coefficients of all R
\* fields.
C26_AllFieldsProjected ==
    (calc.pc = "done" /\ Len(calc.random_fields_list) >= 1) =>
        LET R == Len(calc.random_fields_list)
        IN  /\ calc.random_fields_trunc_dict = [k \in 1..R |-> EntryOfField(k)]
            /\ calc.x_red =
                 [c \in 1..num_random_var |-> <<"x", c - 1>>]
                     \o HstackCoefficients([k \in 1..R |-> EntryOfField(k)])

\* the candidates that column c of gammas_ext_mc was made of
SelectedInColumn(c) == gammas_ext_mc.v[1][c].sum_of

\* C27: calculate_extended_gammas, for d candidate columns (two candidates may
\* have equal score), runs its d iterations without error; each iteration
\* selects exactly one remaining candidate of maximum score and removes
\* exactly that one from the pool, so that gammas_ext_mc ends with exactly d
\* columns, each candidate used exactly once, in non-increasing order of score.
C27_GreedyRankingCompletes ==
    /\ err = NoErr
    /\ calc.pc \in {"loop", "done"} =>
         /\ NCols(gammas_ext_mc.v) = calc.counter
         /\ Len(calc.x_iter_test) = Len(calc.x_red) - calc.counter
         /\ \A c \in 1..NCols(gammas_ext_mc.v) :
              /\ Cardinality(SelectedInColumn(c)) = 1
              /\ \A e \in SelectedInColumn(c) :
                   /\ \A k \in 1..Len(calc.x_iter_test) : calc.score[e] >= calc.score[calc.x_iter_test[k]]
                   /\ \A b \in 1..(c - 1) : \A f \in SelectedInColumn(b) :
                        f # e /\ calc.score[f] >= calc.score[e]
    /\ calc.pc = "done" => NCols(gammas_ext_mc.v) = Len(calc.x_red)

\* how often the event e is in the log of the current call
Count(e) == Len(SelectSeq(log, LAMBDA x : x = e))

\* C28: in one feature-based pass, build_approximation(approx_case=True), the
\* probabilistic mapping is set up exactly once and trained exactly once, for
\* every feature strategy, opt_features included.
C28_TrainedOncePerFeaturePass ==
    (call = "build_approximation_features" /\ Succeeded) =>
        /\ Count("setup") = 1
        /\ Count("train") = 1

\* C29: in one call of evaluate on the simulation path (HF model configured,
\* no Y_HF_mc) the HF model is evaluated on X_train at most once, with and
\* without no_features_comparison_bool.
C29_HFModelEvaluatedOnce ==
    (call = "evaluate" /\ high_fidelity_model /\ IsNone(Y_HF_mc)) =>
        Count("hf_evaluate") <= 1

\* C30: in calculate_p_yhf_var the determinant by which the 2x2 covariance is
\* inverted (and whose square root normalises the density) is strictly
\* positive for every pair and every input, also when var1 * var2 equals
\* covariance^2: nothing is divided by zero.
C30_DeterminantPositive ==
    \A n \in 1..Len(calc.yhf_pdf_grid) :
        /\ calc.yhf_pdf_grid[n].inv_sigma.det_sigma > 0
        /\ calc.yhf_pdf_grid[n].c.sqrt_of_4_pi2_times > 0

====
